---- MODULE Spec2Model ----
(***************************************************************************)
(* Model of the two gold-dashboard scripts:                                *)
(*   src/gold_dashboard.py            ("dashboard": RSI by ewm(span=14))   *)
(*   src/gold_dashboard_streamlit.py  ("streamlit": RSI by rolling(14))    *)
(*                                                                         *)
(* A page run is the linear script: get data (through the st.cache_data    *)
(* cache) -> indicators -> current values -> render.  Positions in series  *)
(* are 1-based here: source index i is position i+1.                       *)
(*                                                                         *)
(* Floating point values are modelled as exact rationals plus the IEEE     *)
(* specials NaN, +inf, -inf and the two signed zeros; rounding is not      *)
(* modelled.                                                               *)
(***************************************************************************)
EXTENDS Integers, Sequences, FiniteSets, TLC

VARIABLES script, now, cache, news, page

vars == <<script, now, cache, news, page>>

(***************************************************************************)
(* Bounds of the model                                                     *)
(***************************************************************************)
MaxPrice == 2
MaxQuoteBars == 2
MaxFreeBars == 4
MaxBars == 52
MaxSwitch == 6
MaxTicks == 2

(***************************************************************************)
(* Program constants                                                       *)
(***************************************************************************)
FastWindow == 20
SlowWindow == 50
RsiPeriod == 14
DataTtl == 900
NewsTtl == 3600
NewsLimit == 5

(***************************************************************************)
(* Numbers: a cell is a float value.  A finite value is n/d in lowest      *)
(* terms with d > 0; the two zeros are 0/1 (+0.0) and 0/-1 (-0.0); the     *)
(* infinities carry their sign in n.                                       *)
(***************************************************************************)
NaN == [k |-> "nan", n |-> 0, d |-> 1]
PosInf == [k |-> "inf", n |-> 1, d |-> 1]
NegInf == [k |-> "inf", n |-> -1, d |-> 1]
PosZero == [k |-> "num", n |-> 0, d |-> 1]
NegZero == [k |-> "num", n |-> 0, d |-> -1]

Abs(x) == IF x < 0 THEN -x ELSE x

RECURSIVE GCD(_, _)
GCD(a, b) == IF b = 0 THEN a ELSE GCD(b, a % b)

\* the rational n/d (d # 0) in lowest terms with a positive denominator
Rat(n, d) ==
    LET g == GCD(Abs(n), Abs(d))
        s == IF d < 0 THEN -1 ELSE 1
    IN  [k |-> "num", n |-> s * (n \div g), d |-> s * (d \div g)]

Int2Cell(x) == [k |-> "num", n |-> x, d |-> 1]

IsNaN(a) == a.k = "nan"
IsInf(a) == a.k = "inf"
IsNum(a) == a.k = "num"
IsZero(a) == IsNum(a) /\ a.n = 0
Sign(a) == IF a.n > 0 THEN 1 ELSE IF a.n < 0 THEN -1 ELSE 0

\* the sign bit: set for negative values, -inf and -0.0
SignBit(a) == a.n < 0 \/ (a.n = 0 /\ a.d < 0)

\* the denominator of a finite value
Den(a) == Abs(a.d)

Zero(neg) == IF neg THEN NegZero ELSE PosZero

Inf(neg) == IF neg THEN NegInf ELSE PosInf

\* a == b on floats: false on NaN, true on -0.0 and +0.0
EqC(a, b) ==
    /\ ~IsNaN(a)
    /\ ~IsNaN(b)
    /\ a.k = b.k
    /\ a.n = b.n
    /\ Den(a) = Den(b)

NegC(a) ==
    IF IsNaN(a) THEN NaN
    ELSE IF IsZero(a) THEN Zero(~SignBit(a))
    ELSE [a EXCEPT !.n = -a.n]

\* float +: (-0) + (-0) is -0, every other zero sum is +0
AddC(a, b) ==
    IF IsNaN(a) \/ IsNaN(b) THEN NaN
    ELSE IF IsInf(a) /\ IsInf(b) THEN (IF a.n = b.n THEN a ELSE NaN)
    ELSE IF IsInf(a) THEN a
    ELSE IF IsInf(b) THEN b
    ELSE IF IsZero(a) /\ IsZero(b) THEN Zero(SignBit(a) /\ SignBit(b))
    ELSE LET g == GCD(Den(a), Den(b))
         IN  Rat(a.n * (Den(b) \div g) + b.n * (Den(a) \div g),
                 (Den(a) \div g) * Den(b))

SubC(a, b) == AddC(a, NegC(b))

\* float *: the sign of a zero product is the xor of the sign bits
MulC(a, b) ==
    IF IsNaN(a) \/ IsNaN(b) THEN NaN
    ELSE IF IsInf(a) \/ IsInf(b)
         THEN (IF IsZero(a) \/ IsZero(b) THEN NaN
               ELSE Inf(SignBit(a) # SignBit(b)))
    ELSE IF IsZero(a) \/ IsZero(b) THEN Zero(SignBit(a) # SignBit(b))
    ELSE LET g1 == GCD(Abs(a.n), Den(b))
             g2 == GCD(Abs(b.n), Den(a))
         IN  Rat((a.n \div g1) * (b.n \div g2),
                 (Den(a) \div g2) * (Den(b) \div g1))

\* float /: x/0 is +-inf by the xor of the sign bits, 0/0 is NaN, x/inf is
\* a zero
DivC(a, b) ==
    IF IsNaN(a) \/ IsNaN(b) THEN NaN
    ELSE IF IsInf(b)
         THEN (IF IsInf(a) THEN NaN ELSE Zero(SignBit(a) # SignBit(b)))
    ELSE IF IsZero(b)
         THEN (IF IsZero(a) THEN NaN ELSE Inf(SignBit(a) # SignBit(b)))
    ELSE IF IsInf(a) THEN Inf(SignBit(a) # SignBit(b))
    ELSE MulC(a, Rat(Den(b), b.n))

\* a <= b on cells that are numbers
LeqC(a, b) == a.n * Den(b) <= b.n * Den(a)

(***************************************************************************)
(* Series operations (pandas)                                              *)
(***************************************************************************)
\* df['Close'] as a float column
CloseCol(bars) == [i \in 1..Len(bars) |-> Int2Cell(bars[i])]

\* Series.diff(): first position is NaN
Diff(x) == [i \in 1..Len(x) |-> IF i = 1 THEN NaN ELSE SubC(x[i], x[i-1])]

\* Series.clip(lower=0): NaN stays NaN, a value below 0 becomes the bound
ClipLower0(x) ==
    [i \in 1..Len(x) |-> IF IsNaN(x[i]) THEN NaN
                         ELSE IF Sign(x[i]) < 0 THEN PosZero ELSE x[i]]

\* Series.clip(upper=0): NaN stays NaN, a value above 0 becomes the bound
ClipUpper0(x) ==
    [i \in 1..Len(x) |-> IF IsNaN(x[i]) THEN NaN
                         ELSE IF Sign(x[i]) > 0 THEN PosZero ELSE x[i]]

\* delta.where(delta > 0, 0): NaN > 0 is False, so NaN becomes 0
WherePositive(x) ==
    [i \in 1..Len(x) |-> IF ~IsNaN(x[i]) /\ Sign(x[i]) > 0 THEN x[i] ELSE PosZero]

\* delta.where(delta < 0, 0): NaN < 0 is False, so NaN becomes 0
WhereNegative(x) ==
    [i \in 1..Len(x) |-> IF ~IsNaN(x[i]) /\ Sign(x[i]) < 0 THEN x[i] ELSE PosZero]

\* unary minus on a column: the zeros become -0.0
NegCol(x) == [i \in 1..Len(x) |-> NegC(x[i])]

\* Series.rolling(w).mean(): min_periods = w; the sliding loop of roll_mean.
\* Per position: remove the value leaving the window, add the entering one
\* (nobs, sum_x, neg_ct, the run of equal values and prev_value), then
\* calc_mean: NaN below min_periods, else sum_x/nobs, replaced by prev_value
\* when the whole window is one repeated value, and by 0 when its sign
\* contradicts neg_ct.  st is the loop state after Len(st.out) values.
RECURSIVE RollLoop(_, _, _)
RollLoop(x, w, st) ==
    IF Len(st.out) = Len(x) THEN st.out
    ELSE LET i    == Len(st.out) + 1
             add  == x[i]
             gone == i > w /\ ~IsNaN(x[i - w])
             s1   == IF gone THEN SubC(st.sum, x[i - w]) ELSE st.sum
             n1   == IF gone THEN st.nobs - 1 ELSE st.nobs
             g1   == IF gone /\ SignBit(x[i - w]) THEN st.neg_ct - 1
                     ELSE st.neg_ct
             s2   == IF IsNaN(add) THEN s1 ELSE AddC(s1, add)
             n2   == IF IsNaN(add) THEN n1 ELSE n1 + 1
             g2   == IF ~IsNaN(add) /\ SignBit(add) THEN g1 + 1 ELSE g1
             same == IF IsNaN(add) THEN st.same
                     ELSE IF EqC(add, st.prev) THEN st.same + 1 ELSE 1
             prev == IF IsNaN(add) THEN st.prev ELSE add
             mean == DivC(s2, Int2Cell(n2))
             val  == IF n2 >= w /\ n2 > 0
                     THEN IF same >= n2 THEN prev
                          ELSE IF g2 = 0 /\ Sign(mean) < 0 THEN PosZero
                          ELSE IF g2 = n2 /\ Sign(mean) > 0 THEN PosZero
                          ELSE mean
                     ELSE NaN
         IN  RollLoop(x, w, [sum |-> s2, nobs |-> n2, neg_ct |-> g2,
                             same |-> same, prev |-> prev,
                             out |-> Append(st.out, val)])

\* variant: rolling(w, min_periods=1), which emits the mean of a partial window
MinPeriodsOneRollingMean(x, w) ==
    [i \in 1..Len(x) |->
        LET lo == IF i > w THEN i - w + 1 ELSE 1
            RECURSIVE S(_)
            S(j) == IF j > i THEN PosZero ELSE AddC(x[j], S(j + 1))
        IN  DivC(S(lo), Int2Cell(i - lo + 1))]

RollingMean(x, w) ==
    RollLoop(x, w, [sum |-> PosZero, nobs |-> 0, neg_ct |-> 0, same |-> 0,
                    prev |-> IF Len(x) > 0 THEN x[1] ELSE NaN, out |-> <<>>])

\* Series.ewm(span=p).mean(): adjust=True, ignore_na=False, min_periods=0.
\* The loop of pandas' ewm: alpha = 2/(p+1), old_wt_factor = 1-alpha; per
\* observation old_wt *= old_wt_factor and, if weighted != cur,
\* weighted = (old_wt*weighted + cur)/(old_wt + 1); then old_wt += 1.
\* st.weighted is the running average, st.old_wt the accumulated weight,
\* st.out the values emitted so far.
EwmAlpha(p) == Rat(2, p + 1)

RECURSIVE EwmLoop(_, _, _)
EwmLoop(x, p, st) ==
    IF Len(st.out) = Len(x) THEN st.out
    ELSE LET cur    == x[Len(st.out) + 1]
             factor == SubC(Int2Cell(1), EwmAlpha(p))
             decay  == MulC(st.old_wt, factor)
             next   ==
                 IF ~IsNaN(st.weighted)
                 THEN IF ~IsNaN(cur)
                      THEN [weighted |->
                                IF EqC(st.weighted, cur) THEN st.weighted
                                ELSE DivC(AddC(MulC(decay, st.weighted), cur),
                                          AddC(decay, Int2Cell(1))),
                            old_wt   |-> AddC(decay, Int2Cell(1))]
                      ELSE [weighted |-> st.weighted, old_wt |-> decay]
                 ELSE [weighted |-> cur, old_wt |-> st.old_wt]
         IN  EwmLoop(x, p, [weighted |-> next.weighted, old_wt |-> next.old_wt,
                            out |-> Append(st.out, next.weighted)])

\* variant: ewm(span=p, adjust=False), avg[i] = alpha*x[i] + (1-alpha)*avg[i-1]
AdjustFalseEwmMean(x, p) ==
    LET RECURSIVE W(_, _, _)
        W(i, prev, out) ==
            IF i > Len(x) THEN out
            ELSE LET v == IF IsNaN(prev) THEN x[i]
                          ELSE IF IsNaN(x[i]) THEN prev
                          ELSE AddC(MulC(EwmAlpha(p), x[i]),
                                    MulC(SubC(Int2Cell(1), EwmAlpha(p)), prev))
                 IN  W(i + 1, v, Append(out, v))
    IN  W(1, NaN, <<>>)

EwmMean(x, p) ==
    EwmLoop(x, p, [weighted |-> NaN, old_wt |-> Int2Cell(1), out |-> <<>>])

\* column-wise a / b
DivCol(a, b) == [i \in 1..Len(a) |-> DivC(a[i], b[i])]

\* 100 - (100 / (1 + rs))
RsiOf(rs) ==
    [i \in 1..Len(rs) |->
        SubC(Int2Cell(100), DivC(Int2Cell(100), AddC(Int2Cell(1), rs[i])))]

(***************************************************************************)
(* Indicator computation                                                   *)
(***************************************************************************)
NoFrame == [SMA_20 |-> <<>>, SMA_50 |-> <<>>, avg_gain |-> <<>>,
            avg_loss |-> <<>>, RSI |-> <<>>]

\* gold_dashboard.py
DashGain(bars) == ClipLower0(Diff(CloseCol(bars)))

DashLoss(bars) == NegCol(ClipUpper0(Diff(CloseCol(bars))))

DashIndicators(bars) ==
    LET avg_gain == EwmMean(DashGain(bars), RsiPeriod)
        avg_loss == EwmMean(DashLoss(bars), RsiPeriod)
        rs       == DivCol(avg_gain, avg_loss)
    IN  [SMA_20   |-> RollingMean(CloseCol(bars), FastWindow),
         SMA_50   |-> RollingMean(CloseCol(bars), SlowWindow),
         avg_gain |-> avg_gain,
         avg_loss |-> avg_loss,
         RSI      |-> RsiOf(rs)]

\* gold_dashboard_streamlit.py
StreamlitGain(bars) == WherePositive(Diff(CloseCol(bars)))

\* variant: the loss column without the leading minus
UnnegatedStreamlitLoss(bars) == WhereNegative(Diff(CloseCol(bars)))

StreamlitLoss(bars) == NegCol(WhereNegative(Diff(CloseCol(bars))))

StreamlitIndicators(bars) ==
    LET avg_gain == RollingMean(StreamlitGain(bars), RsiPeriod)
        avg_loss == RollingMean(StreamlitLoss(bars), RsiPeriod)
        rs       == DivCol(avg_gain, avg_loss)
    IN  [SMA_20   |-> RollingMean(CloseCol(bars), FastWindow),
         SMA_50   |-> RollingMean(CloseCol(bars), SlowWindow),
         avg_gain |-> avg_gain,
         avg_loss |-> avg_loss,
         RSI      |-> RsiOf(rs)]

(***************************************************************************)
(* What the market-data source can return                                  *)
(***************************************************************************)
Scripts == {"dashboard", "streamlit"}

Prices == 0..MaxPrice

SeqsUpTo(m, S) == UNION {[1..n -> S] : n \in 0..m}

\* what a download returns in a page run: short series whose closes are zero
\* or a positive price; the empty one is a failed download
Quotes == SeqsUpTo(MaxQuoteBars, {0, MaxPrice})

Min(a, b) == IF a < b THEN a ELSE b

\* long series (of MaxBars - 1 and MaxBars bars; the frame of a series holds
\* the indicator values of every prefix): a level that moves by t1 per bar for the first sw bars and by
\* t2 per bar afterwards, plus a repeating pattern of small offsets
Level(t1, t2, sw, k) == MaxBars + t1 * Min(k, sw) + t2 * (k - Min(k, sw))

Trended(t1, t2, sw, pat, n) ==
    [i \in 1..n |-> Level(t1, t2, sw, i - 1) + pat[((i - 1) % Len(pat)) + 1]]

Trends == {-1, 0, 1}

Patterns == UNION {[1..n -> Prices] : n \in 1..2}

LongFeeds ==
    {Trended(t1, t2, sw, pat, n) :
        t1 \in Trends, t2 \in Trends, sw \in 1..MaxSwitch,
        pat \in Patterns, n \in (MaxBars - 1)..MaxBars}

ShortFeeds == SeqsUpTo(MaxFreeBars, Prices) \ {<<>>}

\* the indicator columns of get_data for each download of a page run, as a
\* table (@@ yields the function in tabulated form)
QuoteFrames == [df \in Quotes |-> DashIndicators(df)] @@ <<>>

\* the exact ewm arithmetic is kept within the integer range by giving the
\* dashboard script the series of at most MaxFreeBars bars
Feeds(sc) ==
    IF sc = "dashboard" THEN ShortFeeds
    ELSE ShortFeeds \cup LongFeeds

(***************************************************************************)
(* The st.cache_data caches                                                *)
(***************************************************************************)
TickSecs == DataTtl \div 2

NoEntry == [has |-> FALSE, stored |-> 0, expires |-> 0, data |-> <<>>,
            frame |-> NoFrame]

NoNews == [has |-> FALSE, expires |-> 0, items |-> 0]

\* variant: a cache without ttl
NeverExpires(e, t) == e.has

\* an entry is served until its time to live has elapsed
Fresh(e, t) == e.has /\ t < e.expires

Entry(data, frame, t) ==
    [has |-> TRUE, stored |-> t, expires |-> t + DataTtl, data |-> data,
     frame |-> frame]

\* variant: the emptiness test left out
NeverEmpty(df) == FALSE

\* DataFrame.empty
Empty(df) == Len(df) = 0

(***************************************************************************)
(* The page: the state of the current (or last) script run of the session  *)
(* that is observed.  The caches are shared with the other sessions of the *)
(* server.                                                                 *)
(***************************************************************************)
NoMetrics == [current_price |-> 0, price_change |-> 0, pct_change |-> NaN,
              rsi |-> NaN]

\* variant: the elements of the last run stay on the page of the new run
KeepPage(trigger) ==
    [page EXCEPT !.stage = "start", !.trigger = trigger, !.downloaded = FALSE,
                 !.hadChart = page.chart \/ page.hadChart]

\* a run that has just begun: nothing fetched, nothing drawn by this run;
\* the button of the run before stays on screen until this run ends;
\* hadChart remembers whether an earlier run had drawn the chart
StartPage(trigger) ==
    [stage |-> "start", trigger |-> trigger, downloaded |-> FALSE,
     error |-> "none", data |-> <<>>, frame |-> NoFrame,
     metrics |-> NoMetrics, chart |-> FALSE, button |-> page.button,
     hadChart |-> page.chart \/ page.hadChart]

IdlePage ==
    [stage |-> "idle", trigger |-> "none", downloaded |-> FALSE,
     error |-> "none", data |-> <<>>, frame |-> NoFrame,
     metrics |-> NoMetrics, chart |-> FALSE, button |-> FALSE,
     hadChart |-> FALSE]

Finished == {"idle", "done", "stopped", "crashed"}

\* the run is inside get_data / get_gold_data, between the cache miss and
\* the store of the result (or the st.stop of get_data)
InGetData ==
    \/ page.stage = "downloading"
    \/ script = "dashboard" /\ page.stage \in {"bars", "empty"}

\* the run is at a Streamlit call, where a pending rerun request ends it:
\* not inside a download, a scrape or the indicator lines of get_data
AtStreamlitCall ==
    /\ page.stage \notin {"downloading", "scraping"}
    /\ ~(script = "dashboard" /\ page.stage = "bars")

\* the run is inside get_news, between the cache miss and the store
InGetNews == page.stage = "scraping"

Init ==
    /\ script \in Scripts
    /\ now = 0
    /\ cache = NoEntry
    /\ news = NoNews
    /\ page = IdlePage

\* soup.select('h3.title a')[:5]: at most NewsLimit items; a failed scrape
\* returns []
NewsCounts == 0..NewsLimit

NewsEntry(k, t) == [has |-> TRUE, expires |-> t + NewsTtl, items |-> k]

(***************************************************************************)
(* Current values                                                          *)
(***************************************************************************)
Last(x) == x[Len(x)]

PctOf(change, base) == MulC(DivC(Int2Cell(change), Int2Cell(base)), Int2Cell(100))

\* gold_dashboard.py: Close.iloc[-2] is read unconditionally
DashMetrics(data, frame) ==
    IF Len(data) < 2 THEN [error |-> "IndexError", metrics |-> NoMetrics]
    ELSE IF Last(data) = 0 THEN [error |-> "ZeroDivisionError", metrics |-> NoMetrics]
    ELSE [error |-> "none",
          metrics |-> [current_price |-> Last(data),
                       price_change  |-> Last(data) - data[Len(data) - 1],
                       pct_change    |-> PctOf(Last(data) - data[Len(data) - 1],
                                               Last(data)),
                       rsi           |-> Last(frame.RSI)]]

\* gold_dashboard_streamlit.py: prev_close falls back to current_price
StreamlitMetrics(data, frame) ==
    IF Len(data) < 1 THEN [error |-> "IndexError", metrics |-> NoMetrics]
    ELSE LET current_price == Last(data)
             prev_close    == IF Len(data) > 1 THEN data[Len(data) - 1]
                              ELSE current_price
         IN  IF prev_close = 0
             THEN [error |-> "ZeroDivisionError", metrics |-> NoMetrics]
             ELSE [error |-> "none",
                   metrics |-> [current_price |-> current_price,
                                price_change  |-> current_price - prev_close,
                                pct_change    |-> PctOf(current_price - prev_close,
                                                        prev_close),
                                rsi           |-> Last(frame.RSI)]]

(***************************************************************************)
(* Events of the session and of its environment                            *)
(***************************************************************************)
\* the page is (re)loaded: the script runs from the top.  A run in progress
\* is ended at its next Streamlit call, which is never inside a download.
Reload ==
    /\ AtStreamlitCall
    /\ page' = StartPage("load")
    /\ UNCHANGED <<script, now, cache, news>>

\* time passes
Tick ==
    /\ now + TickSecs <= MaxTicks * TickSecs
    /\ now' = now + TickSecs
    /\ UNCHANGED <<script, cache, news, page>>

\* gold_dashboard.py: st.button(..., on_click=st.cache_data.clear); the
\* callback clears every cache, then the script reruns.  The button is on
\* screen only after a run that reached the last line.
PressRefreshDash ==
    /\ script = "dashboard"
    /\ page.button
    /\ AtStreamlitCall
    /\ cache' = NoEntry
    /\ news' = NoNews
    /\ page' = StartPage("press")
    /\ UNCHANGED <<script, now>>

\* gold_dashboard_streamlit.py: if st.button(...): the press only reruns the
\* script; the button's True is seen when the run reaches the button again
PressRefreshStreamlit ==
    /\ script = "streamlit"
    /\ page.button
    /\ AtStreamlitCall
    /\ page' = StartPage("press")
    /\ UNCHANGED <<script, now, cache, news>>

\* another session's refresh: st.cache_data.clear() empties the caches that
\* all sessions share, at any moment of this session's run
OtherSessionClear ==
    /\ cache.has \/ news.has
    /\ cache' = NoEntry
    /\ news' = NoNews
    /\ UNCHANGED <<script, now, page>>

\* another session's get_data / get_gold_data returns and its result is
\* stored: it had found no unexpired entry, and the function is computed by
\* one session at a time
OtherSessionStore ==
    /\ ~Fresh(cache, now)
    /\ ~InGetData
    /\ \E df \in Quotes :
          /\ script = "dashboard" => ~Empty(df)
          /\ cache' = Entry(df, IF script = "dashboard" THEN QuoteFrames[df]
                                ELSE NoFrame, now)
    /\ UNCHANGED <<script, now, news, page>>

\* another session's get_news returns and its result is stored
OtherSessionNews ==
    /\ script = "dashboard"
    /\ ~Fresh(news, now)
    /\ ~InGetNews
    /\ \E k \in NewsCounts : news' = NewsEntry(k, now)
    /\ UNCHANGED <<script, now, cache, page>>

(***************************************************************************)
(* The run of gold_dashboard.py                                            *)
(***************************************************************************)
\* data = get_data(), the cache lookup: an unexpired entry is returned as
\* stored; otherwise get_data is entered
LookupDash ==
    /\ script = "dashboard"
    /\ page.stage = "start"
    /\ page' = IF Fresh(cache, now)
               THEN [page EXCEPT !.stage = "got_data", !.data = cache.data,
                                 !.frame = cache.frame]
               ELSE [page EXCEPT !.stage = "downloading", !.downloaded = TRUE]
    /\ UNCHANGED <<script, now, cache, news>>

\* yf.download returns; if df.empty the run is at st.error inside get_data
DownloadDash ==
    /\ script = "dashboard"
    /\ page.stage = "downloading"
    /\ \E df \in Quotes :
          page' = IF Empty(df)
                  THEN [page EXCEPT !.stage = "empty"]
                  ELSE [page EXCEPT !.stage = "bars", !.data = df]
    /\ UNCHANGED <<script, now, cache, news>>

\* st.error, st.stop inside get_data: the run ends, nothing is stored
StopDash ==
    /\ script = "dashboard"
    /\ page.stage = "empty"
    /\ page' = [page EXCEPT !.stage = "stopped", !.error = "fetch",
                            !.button = FALSE]
    /\ UNCHANGED <<script, now, cache, news>>

\* the rest of get_data: the indicator columns; the returned frame is stored
\* in the cache
ComputeDash ==
    /\ script = "dashboard"
    /\ page.stage = "bars"
    /\ LET frame == DashIndicators(page.data)
       IN  /\ cache' = Entry(page.data, frame, now)
           /\ page' = [page EXCEPT !.stage = "got_data", !.frame = frame]
    /\ UNCHANGED <<script, now, news>>

\* news = get_news(), the cache lookup
NewsLookupDash ==
    /\ script = "dashboard"
    /\ page.stage = "got_data"
    /\ page' = IF Fresh(news, now)
               THEN [page EXCEPT !.stage = "loaded"]
               ELSE [page EXCEPT !.stage = "scraping"]
    /\ UNCHANGED <<script, now, cache, news>>

\* requests.get returns (or raises); the list, [] included, is stored
ScrapeDash ==
    /\ script = "dashboard"
    /\ page.stage = "scraping"
    /\ \E k \in NewsCounts : news' = NewsEntry(k, now)
    /\ page' = [page EXCEPT !.stage = "loaded"]
    /\ UNCHANGED <<script, now, cache>>

\* current_price, price_change, pct_change
MetricsDash ==
    /\ script = "dashboard"
    /\ page.stage = "loaded"
    /\ LET m == DashMetrics(page.data, page.frame)
       IN  page' = IF m.error = "none"
                   THEN [page EXCEPT !.stage = "metrics", !.metrics = m.metrics]
                   ELSE [page EXCEPT !.stage = "crashed", !.error = m.error,
                                     !.button = FALSE]
    /\ UNCHANGED <<script, now, cache, news>>

\* metric cards and the chart (st.plotly_chart)
RenderDash ==
    /\ script = "dashboard"
    /\ page.stage = "metrics"
    /\ page' = [page EXCEPT !.stage = "rendered", !.chart = TRUE]
    /\ UNCHANGED <<script, now, cache, news>>

\* news, footer, and the refresh button on the last line
ButtonDash ==
    /\ script = "dashboard"
    /\ page.stage = "rendered"
    /\ page' = [page EXCEPT !.stage = "done", !.button = TRUE]
    /\ UNCHANGED <<script, now, cache, news>>

(***************************************************************************)
(* The run of gold_dashboard_streamlit.py                                  *)
(***************************************************************************)
\* data = get_gold_data(), the cache lookup; a served entry is then tested
\* by the page: if data.empty the run is at st.error
LookupStreamlit ==
    /\ script = "streamlit"
    /\ page.stage = "start"
    /\ page' = IF ~Fresh(cache, now)
               THEN [page EXCEPT !.stage = "downloading", !.downloaded = TRUE]
               ELSE IF Empty(cache.data)
               THEN [page EXCEPT !.stage = "empty"]
               ELSE [page EXCEPT !.stage = "bars", !.data = cache.data]
    /\ UNCHANGED <<script, now, cache, news>>

\* yf.download returns; whatever get_gold_data returns is stored, the empty
\* frame included; then the page tests data.empty
DownloadStreamlit ==
    /\ script = "streamlit"
    /\ page.stage = "downloading"
    /\ \E df \in Quotes :
          /\ cache' = Entry(df, NoFrame, now)
          /\ page' = IF Empty(df)
                     THEN [page EXCEPT !.stage = "empty"]
                     ELSE [page EXCEPT !.stage = "bars", !.data = df]
    /\ UNCHANGED <<script, now, news>>

\* st.error, st.stop of the page: the run ends
StopStreamlit ==
    /\ script = "streamlit"
    /\ page.stage = "empty"
    /\ page' = [page EXCEPT !.stage = "stopped", !.error = "fetch",
                            !.button = FALSE]
    /\ UNCHANGED <<script, now, cache, news>>

\* the indicator columns, computed by the page on every run
ComputeStreamlit ==
    /\ script = "streamlit"
    /\ page.stage = "bars"
    /\ page' = [page EXCEPT !.stage = "loaded",
                            !.frame = StreamlitIndicators(page.data)]
    /\ UNCHANGED <<script, now, cache, news>>

\* current_price, prev_close, price_change, percent_change, rsi_value
MetricsStreamlit ==
    /\ script = "streamlit"
    /\ page.stage = "loaded"
    /\ LET m == StreamlitMetrics(page.data, page.frame)
       IN  page' = IF m.error = "none"
                   THEN [page EXCEPT !.stage = "metrics", !.metrics = m.metrics]
                   ELSE [page EXCEPT !.stage = "crashed", !.error = m.error,
                                     !.button = FALSE]
    /\ UNCHANGED <<script, now, cache, news>>

\* metric cards, charts
RenderStreamlit ==
    /\ script = "streamlit"
    /\ page.stage = "metrics"
    /\ page' = [page EXCEPT !.stage = "rendered", !.chart = TRUE]
    /\ UNCHANGED <<script, now, cache, news>>

\* if st.button('Refresh Data'): st.cache_data.clear(); rerun -- reached
\* only at the end of a run that rendered
ButtonStreamlit ==
    /\ script = "streamlit"
    /\ page.stage = "rendered"
    /\ IF page.trigger = "press"
       THEN /\ cache' = NoEntry
            /\ news' = NoNews
            /\ page' = [StartPage("rerun") EXCEPT !.button = TRUE]
       ELSE /\ page' = [page EXCEPT !.stage = "done", !.button = TRUE]
            /\ UNCHANGED <<cache, news>>
    /\ UNCHANGED <<script, now>>

Next ==
    \/ Reload
    \/ Tick
    \/ PressRefreshDash
    \/ PressRefreshStreamlit
    \/ OtherSessionClear
    \/ OtherSessionStore
    \/ OtherSessionNews
    \/ LookupDash
    \/ DownloadDash
    \/ StopDash
    \/ ComputeDash
    \/ NewsLookupDash
    \/ ScrapeDash
    \/ MetricsDash
    \/ RenderDash
    \/ ButtonDash
    \/ LookupStreamlit
    \/ DownloadStreamlit
    \/ StopStreamlit
    \/ ComputeStreamlit
    \/ MetricsStreamlit
    \/ RenderStreamlit
    \/ ButtonStreamlit

Spec == Init /\ [][Next]_vars

(***************************************************************************)
(* The indicator computation on its own: a run that holds the bars of a    *)
(* successful download and is about to compute the indicator columns       *)
(***************************************************************************)
EngineInit ==
    /\ script \in Scripts
    /\ now = 0
    /\ news = NoNews
    /\ \E bars \in Feeds(script) :
          /\ page = [IdlePage EXCEPT !.stage = "bars", !.trigger = "load",
                                     !.downloaded = TRUE, !.data = bars]
          /\ cache = IF script = "dashboard" THEN NoEntry
                     ELSE Entry(bars, NoFrame, 0)

EngineNext ==
    \/ ComputeDash
    \/ ComputeStreamlit

EngineSpec == EngineInit /\ [][EngineNext]_vars

(***************************************************************************)
(* Helpers of the properties                                               *)
(***************************************************************************)
RECURSIVE SumBars(_, _, _)
SumBars(bars, lo, hi) == IF lo > hi THEN 0 ELSE bars[lo] + SumBars(bars, lo + 1, hi)

RECURSIVE SumCells(_, _, _)
SumCells(x, lo, hi) ==
    IF lo > hi THEN PosZero ELSE AddC(x[lo], SumCells(x, lo + 1, hi))

NonDecreasing(bars, lo, hi) == \A j \in lo..(hi - 1) : bars[j] <= bars[j + 1]

Constant(bars) == \A j \in 1..Len(bars) : bars[j] = bars[1]

\* the run holds the indicator columns of page.data
Computed == page.frame # NoFrame

\* col is the moving average of window w over bars: undefined at source
\* indices 0..w-2 (positions below w), the mean of the last w closes after
SmaOf(col, bars, w) ==
    /\ Len(col) = Len(bars)
    /\ \A i \in 1..Len(bars) :
          IF i < w THEN IsNaN(col[i])
          ELSE /\ IsNum(col[i])
               /\ col[i].n * w = SumBars(bars, i - w + 1, i) * Den(col[i])
               /\ Constant(bars) => EqC(col[i], Int2Cell(bars[1]))

\* C1: for the windows 20 and 50, SMA[i] is undefined for i in 0..w-2 and is
\* the arithmetic mean of Close[i-w+1..i] for i >= w-1; on a constant series
\* of value k every defined SMA equals k.
C1_SmaWindow ==
    Computed =>
        /\ SmaOf(page.frame.SMA_20, page.data, FastWindow)
        /\ SmaOf(page.frame.SMA_50, page.data, SlowWindow)

\* a constant series long enough for the slow average to be defined
C1_Witness ==
    /\ Computed
    /\ Len(page.data) >= SlowWindow
    /\ Constant(page.data)
    /\ IsNaN(page.frame.SMA_50[SlowWindow - 1])
    /\ EqC(page.frame.SMA_50[SlowWindow], Int2Cell(page.data[1]))
    /\ EqC(page.frame.SMA_20[FastWindow], Int2Cell(page.data[1]))

\* C2: under both smoothing rules every defined RSI value lies in 0..100.
C2_RsiBound ==
    Computed =>
        \A i \in 1..Len(page.frame.RSI) :
            \/ IsNaN(page.frame.RSI[i])
            \/ /\ IsNum(page.frame.RSI[i])
               /\ LeqC(Int2Cell(0), page.frame.RSI[i])
               /\ LeqC(page.frame.RSI[i], Int2Cell(100))

\* an RSI value strictly inside the range, from gains and losses in one
\* rolling window
C2_Witness ==
    /\ Computed
    /\ script = "streamlit"
    /\ \E i \in (RsiPeriod + 1)..Len(page.frame.RSI) :
          /\ IsNum(page.frame.RSI[i])
          /\ ~LeqC(page.frame.RSI[i], Int2Cell(0))
          /\ ~LeqC(Int2Cell(100), page.frame.RSI[i])

\* the lookback window ending at position i: the last RsiPeriod deltas under
\* the rolling rule, the whole history under the exponential rule
LookbackStart(i) == IF script = "streamlit" THEN i - RsiPeriod ELSE 1

SufficientHistory(i) == IF script = "streamlit" THEN i > RsiPeriod ELSE i > 1

\* C3: wherever Close is non-decreasing over the whole lookback window
\* (constant included), avg_loss is 0 and RSI is exactly 100, never NaN.
C3_SaturatesAt100 ==
    Computed =>
        \A i \in 1..Len(page.data) :
            (SufficientHistory(i) /\ NonDecreasing(page.data, LookbackStart(i), i))
                => /\ IsZero(page.frame.avg_loss[i])
                   /\ EqC(page.frame.RSI[i], Int2Cell(100))

\* C8: under the rolling rule avg_gain, avg_loss and RSI are undefined at
\* every index i < 14, and from index 14 on the averages are the means of the
\* last 14 real deltas' gains and losses.
C8_RollingNeedsFourteenDeltas ==
    (Computed /\ script = "streamlit") =>
        \A i \in 1..Len(page.data) :
            IF i <= RsiPeriod
            THEN /\ IsNaN(page.frame.avg_gain[i])
                 /\ IsNaN(page.frame.avg_loss[i])
                 /\ IsNaN(page.frame.RSI[i])
            ELSE /\ EqC(MulC(page.frame.avg_gain[i], Int2Cell(RsiPeriod)),
                        SumCells(StreamlitGain(page.data), i - RsiPeriod + 1, i))
                 /\ EqC(MulC(page.frame.avg_loss[i], Int2Cell(RsiPeriod)),
                        SumCells(StreamlitLoss(page.data), i - RsiPeriod + 1, i))

\* sum of (1-a)^j for j in 0..m-1: the total weight of m observations
RECURSIVE WeightSum(_, _)
WeightSum(a, m) ==
    IF m = 0 THEN PosZero
    ELSE AddC(Int2Cell(1), MulC(SubC(Int2Cell(1), a), WeightSum(a, m - 1)))

\* avg[i] is the blend b*x[i] + (1-b)*avg[i-1]
Blend(avg, x, i, b) ==
    EqC(avg[i], AddC(MulC(b, x[i]), MulC(SubC(Int2Cell(1), b), avg[i - 1])))

\* avg follows the EMA recursion with the one factor a over observations x
\* whose first observation is at position 2
FixedFactorEma(avg, x, a) ==
    /\ Len(avg) = Len(x)
    /\ Len(x) >= 2 => EqC(avg[2], x[2])
    /\ \A i \in 3..Len(x) : Blend(avg, x, i, a)

\* the same with the factor of the i-th value being 1 / (total weight of the
\* observations so far), which tends to a
AdjustedEma(avg, x, a) ==
    /\ Len(avg) = Len(x)
    /\ Len(x) >= 1 => IsNaN(avg[1])
    /\ Len(x) >= 2 => EqC(avg[2], x[2])
    /\ \A i \in 3..Len(x) :
          Blend(avg, x, i, DivC(Int2Cell(1), WeightSum(a, i - 1)))

\* C9 as stated: under the exponential rule avg_gain and avg_loss follow
\* avg[i] = a*x[i] + (1-a)*avg[i-1] with the single factor a = 2/(p+1), the
\* first value being the first observation.
C9_FixedFactor ==
    (Computed /\ script = "dashboard") =>
        /\ FixedFactorEma(page.frame.avg_gain, DashGain(page.data),
                          Rat(2, RsiPeriod + 1))
        /\ FixedFactorEma(page.frame.avg_loss, DashLoss(page.data),
                          Rat(2, RsiPeriod + 1))

\* C9 amended: avg_gain and avg_loss start at the first observation and then
\* follow avg[i] = b_i*x[i] + (1-b_i)*avg[i-1], where b_i is 1 over the sum
\* of (1-a)^j for j below the number of observations, a = 2/(p+1); the same
\* rule is applied to gain and to loss.
C9_AdjustedFactor ==
    (Computed /\ script = "dashboard") =>
        /\ AdjustedEma(page.frame.avg_gain, DashGain(page.data),
                       Rat(2, RsiPeriod + 1))
        /\ AdjustedEma(page.frame.avg_loss, DashLoss(page.data),
                       Rat(2, RsiPeriod + 1))

\* three observations, the averages moving with them
C9_Witness ==
    /\ Computed
    /\ script = "dashboard"
    /\ Len(page.data) >= 4
    /\ ~EqC(page.frame.avg_gain[4], page.frame.avg_gain[3])
    /\ ~EqC(page.frame.avg_loss[4], page.frame.avg_loss[3])
    /\ Sign(page.frame.avg_gain[4]) > 0
    /\ Sign(page.frame.avg_loss[4]) > 0

\* the stages a run reaches only after the indicator computation began
PastFetch == {"bars", "got_data", "scraping", "loaded", "metrics", "rendered",
              "done", "crashed"}

\* C4: when the fetch returns zero bars the run reports an error and stops
\* before any indicator computation: no run computes indicators or extracts
\* metrics on an empty Series.
C4_NoComputeOnEmpty ==
    /\ page.stage \in PastFetch => Len(page.data) > 0
    /\ page.stage \in {"empty", "stopped"} =>
          /\ Len(page.data) = 0
          /\ page.frame = NoFrame
          /\ page.metrics = NoMetrics
    /\ page.stage = "stopped" => page.error = "fetch"

\* a run whose download came back empty has stopped with the error shown
C4_Witness ==
    /\ page.stage = "stopped"
    /\ page.downloaded
    /\ page.error = "fetch"

\* C5 as stated: when a run's fetch fails after an earlier run had fetched
\* and shown a Series, the prior chart and metrics are still rendered in the
\* failing run.
C5_PriorResultStaysDisplayed ==
    (page.stage = "stopped" /\ page.downloaded /\ page.hadChart) => page.chart

\* C5 amended: a run whose fetch fails goes on to nothing but the report of
\* the failure, where it stops (unless a rerun request ends it first); it
\* renders no chart and no metrics, also when an earlier run had fetched and
\* shown a Series.
C5_FailureStopsTheRun ==
    /\ [][page.stage = "empty"
            => page'.stage \in {"empty", "stopped", "start"}]_vars
    /\ [](/\ (page.stage \notin {"idle", "start", "downloading"}
                /\ Len(page.data) = 0) => page.stage \in {"empty", "stopped"}
          /\ page.stage \in {"empty", "stopped"} =>
                /\ ~page.chart
                /\ page.metrics = NoMetrics
                /\ page.frame = NoFrame
          /\ page.error = "fetch" <=> page.stage = "stopped")

\* a failed download in a run that follows one which had drawn the chart
C5_Witness ==
    /\ page.stage = "stopped"
    /\ page.downloaded
    /\ page.hadChart
    /\ page.error = "fetch"

\* the cache holds an entry stored less than the time to live ago
Unexpired == cache.has /\ now < cache.stored + DataTtl

\* C6 as stated: the first run after a refresh press fetches again and never
\* renders the Series the press invalidates.
C6_PressRunFetches ==
    (page.trigger = "press" /\ page.stage # "start") => page.downloaded

\* the step is the cache lookup of a run
IsLookup == page.stage = "start" /\ page'.stage # "start"

\* the step starts the run of trigger t from a page that was past its start
Starts(t) == page.stage # "start" /\ page'.stage = "start" /\ page'.trigger = t

\* C6 amended: a run downloads exactly when its cache lookup finds no
\* unexpired entry.  In gold_dashboard.py the press clears the cache before
\* the run it starts.  In gold_dashboard_streamlit.py the press leaves the
\* cache as it is, so the run that handles the press is served the cached
\* Series if it is unexpired, and only after rendering it does that run
\* clear the cache and start the rerun.
C6_RefetchWhenNoUnexpiredEntry ==
    /\ [][/\ IsLookup => (page'.downloaded <=> ~Unexpired)
          /\ (script = "dashboard" /\ Starts("press")) => ~cache'.has
          /\ (script = "streamlit" /\ Starts("press")) => cache' = cache
          /\ Starts("rerun") =>
                /\ page.trigger = "press"
                /\ page.stage = "rendered"
                /\ page.chart
                /\ ~cache'.has]_vars
    /\ [](/\ page.trigger = "rerun" => script = "streamlit"
          /\ page.stage = "downloading" => page.downloaded)

\* the rerun started by a handled press has downloaded and rendered
C6_Witness ==
    /\ script = "streamlit"
    /\ page.trigger = "rerun"
    /\ page.stage = "done"
    /\ page.downloaded
    /\ page.chart

\* C7: an empty fetch result is never stored as a cache entry (so the next
\* run calls the market-data source again).
C7_EmptyNeverCached ==
    cache.has => Len(cache.data) > 0

\* C10: on every non-empty Series, one bar included, the metrics stage
\* completes without raising: the current price is the last Close and, with
\* no previous bar, the price change is 0.
C10_MetricsNeverRaise ==
    /\ ~(page.stage = "crashed" /\ Len(page.data) >= 1)
    /\ page.stage \in {"metrics", "rendered", "done"} =>
          /\ page.metrics.current_price = Last(page.data)
          /\ Len(page.data) = 1 => page.metrics.price_change = 0

====
